---- MODULE Spec2Model ----
(***************************************************************************)
(* A model of the DataFrame of "Panda's In Rust" (main/src/main.rs):       *)
(* the typed cell ColumnVal, the frame (labels, types, rows) and the       *)
(* operations read_csv, add_column, merge_frame, find_columns,             *)
(* restrict_columns, filter, column_op and average.                        *)
(*                                                                         *)
(* Conventions.                                                            *)
(*  - A Rust String is a sequence of one-character strings, so that the    *)
(*    parsers can read it character by character.                          *)
(*  - An f64 is a fixed-point number counted in tenths (Three(15) is 1.5); *)
(*    an i64 is an integer.  The values of the model are small enough for  *)
(*    both to be exact.                                                    *)
(*  - Vec indices are 1-based here and 0-based in the source.              *)
(*  - A Result is a record whose field res is Ok, one of the error         *)
(*    messages of the source, or Panic when the call aborts the process    *)
(*    (unwrap on an Err, an index out of bounds).                          *)
(***************************************************************************)
EXTENDS Integers, Sequences, FiniteSets, TLC

\* df is the frame main calls the operations on; other is a second frame,
\* read to be merged into df or returned by the call made last.
VARIABLES df, other, last, calls

vars == <<df, other, last, calls>>

\* ------------------------------------------------------------ bounds

\* The most rows a frame of the model holds.
MaxRows == 3

\* The most labels a frame of the model holds.
MaxCols == 3

\* The most calls main makes in a run of the model.
MaxCalls == 3

\* ------------------------------------------------------------ results

Ok == "Ok"

\* The process aborts: Result::unwrap on an Err, or an index out of bounds.
Panic == "panic"

\* csv::ReaderBuilder::from_path(path)? on a path that cannot be opened.
IoError == "io error"

UnknownType == "Unknown type"

ShapeMismatch == "Length does not match"

SchemaMismatch == "Type does not match"

ColumnNotFound == "column doesn't exist"

NotNumeric == "Numeric data not found"

NoData == "No data found"

\* ------------------------------------------------------------ ColumnVal

One(s) == [variant |-> 1, text |-> s, flag |-> FALSE, num |-> 0]

Two(b) == [variant |-> 2, text |-> <<>>, flag |-> b, num |-> 0]

Three(x) == [variant |-> 3, text |-> <<>>, flag |-> FALSE, num |-> x]

Four(n) == [variant |-> 4, text |-> <<>>, flag |-> FALSE, num |-> n]

\* `num as f64` for an i64: the same number, counted in tenths.
AsF64(n) == n * 10

\* ------------------------------------------------------------ parsing

Digits == <<"0", "1", "2", "3", "4", "5", "6", "7", "8", "9">>

IsDigit(c) == \E d \in 1..10 : Digits[d] = c

DigitVal(c) == (CHOOSE d \in 1..10 : Digits[d] = c) - 1

AllDigits(s) == \A i \in 1..Len(s) : IsDigit(s[i])

RECURSIVE DecimalVal(_)
DecimalVal(s) ==
    IF s = <<>> THEN 0
    ELSE 10 * DecimalVal(SubSeq(s, 1, Len(s) - 1)) + DigitVal(s[Len(s)])

HasSign(s) == s # <<>> /\ s[1] \in {"+", "-"}

Unsigned(s) == IF HasSign(s) THEN Tail(s) ELSE s

Signed(s, v) == IF HasSign(s) /\ s[1] = "-" THEN 0 - v ELSE v

\* str::parse::<i64>: an optional sign and one or more decimal digits.
ParseI64(s) ==
    LET u == Unsigned(s) IN
    IF u # <<>> /\ AllDigits(u)
    THEN [ok |-> TRUE, val |-> Signed(s, DecimalVal(u))]
    ELSE [ok |-> FALSE, val |-> 0]

DotAt(u) == IF \E i \in 1..Len(u) : u[i] = "."
            THEN CHOOSE i \in 1..Len(u) : u[i] = "." /\ \A j \in 1..(i - 1) : u[j] # "."
            ELSE Len(u) + 1

\* str::parse::<f64> on decimal literals: an optional sign, digits, and an
\* optional point with digits, at least one digit in all.  The value is in
\* tenths: the fraction's first digit counts, as the model's fields have at
\* most one.
ParseF64(s) ==
    LET u == Unsigned(s)
        d == DotAt(u)
        ip == SubSeq(u, 1, d - 1)
        fp == SubSeq(u, d + 1, Len(u))
    IN
    IF AllDigits(ip) /\ AllDigits(fp) /\ Len(ip) + Len(fp) > 0
    THEN [ok |-> TRUE,
          val |-> Signed(s, 10 * DecimalVal(ip)
                            + (IF fp = <<>> THEN 0 ELSE DigitVal(fp[1])))]
    ELSE [ok |-> FALSE, val |-> 0]

\* ------------------------------------------------------------ DataFrame

\* DataFrame::new
new == [labels |-> <<>>, types |-> <<>>, rows |-> <<>>]

\* A record the csv reader yields as an Err (bytes that are not UTF-8).
InvalidUtf8 == <<"\\xFF">>

InvalidRecord(r) == \E i \in 1..Len(r) : r[i] = InvalidUtf8

\* One field of a data record against its kind code: the match of read_csv.
convert_field(elem, ty) ==
    CASE ty = 1 -> [res |-> Ok, val |-> One(elem)]
      [] ty = 2 -> IF ParseI64(elem).ok
                   THEN [res |-> Ok, val |-> Two(ParseI64(elem).val # 0)]
                   ELSE [res |-> Panic, val |-> One(<<>>)]
      [] ty = 3 -> IF ParseF64(elem).ok
                   THEN [res |-> Ok, val |-> Three(ParseF64(elem).val)]
                   ELSE [res |-> Panic, val |-> One(<<>>)]
      [] ty = 4 -> IF ParseI64(elem).ok
                   THEN [res |-> Ok, val |-> Four(ParseI64(elem).val)]
                   ELSE [res |-> Panic, val |-> One(<<>>)]
      [] OTHER -> [res |-> UnknownType, val |-> One(<<>>)]

\* The inner loop of read_csv: the fields of one data record from field i on,
\* row being the cells converted so far.  types[i] past the end of types
\* is an index out of bounds.
RECURSIVE convert_row(_, _, _, _)
convert_row(r, types, i, row) ==
    IF i > Len(r) THEN [res |-> Ok, row |-> row]
    ELSE IF i > Len(types) THEN [res |-> Panic, row |-> row]
    ELSE LET c == convert_field(r[i], types[i]) IN
         IF c.res # Ok THEN [res |-> c.res, row |-> row]
         ELSE convert_row(r, types, i + 1, Append(row, c.val))

\* The record loop of read_csv: the first record's fields are pushed onto
\* labels, every later record becomes a row; types is stored after the loop.
RECURSIVE read_records(_, _, _, _)
read_records(self, recs, first_row, types) ==
    IF recs = <<>> THEN [frame |-> [self EXCEPT !.types = types], res |-> Ok]
    ELSE LET r == Head(recs) IN
         IF InvalidRecord(r) THEN [frame |-> self, res |-> Panic]
         ELSE IF first_row
         THEN read_records([self EXCEPT !.labels = @ \o r], Tail(recs), FALSE, types)
         ELSE LET c == convert_row(r, types, 1, <<>>) IN
              IF c.res # Ok THEN [frame |-> self, res |-> c.res]
              ELSE read_records([self EXCEPT !.rows = Append(@, c.row)],
                                Tail(recs), FALSE, types)

\* DataFrame::read_csv: frame is self when the call ends.
read_csv(self, file, types) ==
    IF ~file.exists THEN [frame |-> self, res |-> IoError]
    ELSE read_records(self, file.records, TRUE, types)

\* add_column with the length compared after the zip has pushed: the rows
\* that have a value get it before the mismatch is reported.
add_column_zip_first(self, label, dtype, vals) ==
    LET pushed == [i \in 1..Len(self.rows) |->
                     IF i <= Len(vals) THEN Append(self.rows[i], vals[i])
                     ELSE self.rows[i]]
    IN IF Len(self.rows) = Len(vals)
       THEN [frame |-> [labels |-> Append(self.labels, label),
                        types |-> Append(self.types, dtype),
                        rows |-> pushed],
             res |-> Ok]
       ELSE [frame |-> [self EXCEPT !.rows = pushed], res |-> ShapeMismatch]

\* DataFrame::add_column: frame is self when the call ends.  The lengths are
\* compared before anything is pushed; zip pairs row i with vals[i].
add_column(self, label, dtype, vals) ==
    IF Len(self.rows) = Len(vals)
    THEN [frame |-> [labels |-> Append(self.labels, label),
                     types |-> Append(self.types, dtype),
                     rows |-> [i \in 1..Len(self.rows) |->
                                 Append(self.rows[i], vals[i])]],
          res |-> Ok]
    ELSE [frame |-> self, res |-> ShapeMismatch]

\* merge_frame comparing the labels as well as the types.
merge_frame_same_labels(self, dataframe) ==
    IF self.types = dataframe.types /\ self.labels = dataframe.labels
    THEN [frame |-> [self EXCEPT !.rows = @ \o dataframe.rows], res |-> Ok]
    ELSE [frame |-> self, res |-> SchemaMismatch]

\* DataFrame::merge_frame: frame is self when the call ends; dataframe is
\* moved into the call.
merge_frame(self, dataframe) ==
    IF self.types = dataframe.types
    THEN [frame |-> [self EXCEPT !.rows = @ \o dataframe.rows], res |-> Ok]
    ELSE [frame |-> self, res |-> SchemaMismatch]

Contains(seq, x) == \E i \in 1..Len(seq) : seq[i] = x

\* The for_each of find_columns over self.labels from position i on.
RECURSIVE label_index(_, _, _)
label_index(self, labels, i) ==
    IF i > Len(self.labels) THEN <<>>
    ELSE (IF Contains(labels, self.labels[i]) THEN <<i>> ELSE <<>>)
         \o label_index(self, labels, i + 1)

\* find_columns walking the labels asked for instead of self.labels: the
\* positions come in the order of the request.
RECURSIVE requested_index(_, _, _)
requested_index(self, labels, k) ==
    IF k > Len(labels) THEN <<>>
    ELSE (IF Contains(self.labels, labels[k])
          THEN <<CHOOSE i \in 1..Len(self.labels) :
                    self.labels[i] = labels[k]
                    /\ \A j \in 1..(i - 1) : self.labels[j] # labels[k]>>
          ELSE <<>>)
         \o requested_index(self, labels, k + 1)

find_columns_as_requested(self, labels) == requested_index(self, labels, 1)

\* DataFrame::find_columns: always Ok; the positions, in the frame's column
\* order, of the columns whose label is among labels.
find_columns(self, labels) == label_index(self, labels, 1)

\* `row[col_idx]` for every row: some row has no such cell.
ShortRow(self, col_idx) == \E i \in 1..Len(self.rows) : Len(self.rows[i]) < col_idx

column_data(self, col_idx) == [i \in 1..Len(self.rows) |-> self.rows[i][col_idx]]

\* The loop of restrict_columns over data_find from position k on.
RECURSIVE restrict_loop(_, _, _, _)
restrict_loop(self, data_find, k, new_dataframe) ==
    IF k > Len(data_find) THEN [out |-> new_dataframe, res |-> Ok]
    ELSE LET col_idx == data_find[k] IN
         IF col_idx > Len(self.types) \/ ShortRow(self, col_idx)
         THEN [out |-> new_dataframe, res |-> Panic]
         ELSE LET a == add_column(new_dataframe, self.labels[col_idx],
                                  self.types[col_idx], column_data(self, col_idx))
              IN IF a.res # Ok THEN [out |-> new_dataframe, res |-> a.res]
                 ELSE restrict_loop(self, data_find, k + 1, a.frame)

\* DataFrame::restrict_columns: out is the frame returned; self is not
\* assigned to.
restrict_columns(self, labels) ==
    LET data_find == find_columns(self, labels) IN
    IF data_find = <<>> THEN [out |-> new, res |-> Ok]
    ELSE restrict_loop(self, data_find, 1,
                       [new EXCEPT !.rows = [i \in 1..Len(self.rows) |-> <<>>]])

\* The predicates handed to filter: the closure of main, and three more.
Predicates == {"always_true", "always_false", "is_true", "above_one"}

operation(name, val) ==
    CASE name = "always_true" -> TRUE
      [] name = "always_false" -> FALSE
      [] name = "is_true" -> val.variant = 2 /\ val.flag
      [] name = "above_one" -> \/ val.variant = 4 /\ val.num > 1
                               \/ val.variant = 3 /\ val.num > AsF64(1)

\* The loop of filter over self.rows from row i on.
RECURSIVE included_row(_, _, _, _)
included_row(self, idx, name, i) ==
    IF i > Len(self.rows) THEN <<>>
    ELSE (IF operation(name, self.rows[i][idx]) THEN <<self.rows[i]>> ELSE <<>>)
         \o included_row(self, idx, name, i + 1)

\* DataFrame::filter: frame is self when the call ends, out the frame
\* returned.  find_columns(..).unwrap() never fails; data[0] is evaluated
\* once per row, and is out of bounds when no label matched.
filter(self, label, name) ==
    LET data == find_columns(self, <<label>>) IN
    IF self.rows # <<>> /\ (data = <<>> \/ ShortRow(self, data[1]))
    THEN [frame |-> self, out |-> new, res |-> Panic]
    ELSE LET kept == IF self.rows = <<>> THEN <<>>
                     ELSE included_row(self, data[1], name, 1)
         IN [frame |-> [self EXCEPT !.rows = kept],
             out |-> [labels |-> self.labels, types |-> self.types, rows |-> kept],
             res |-> Ok]

\* Iterator::position: the first position of label in self.labels, 0 for None.
position(self, label) ==
    IF Contains(self.labels, label)
    THEN CHOOSE i \in 1..Len(self.labels) :
           self.labels[i] = label /\ \A j \in 1..(i - 1) : self.labels[j] # label
    ELSE 0

\* The row loop of column_op on one column, from row i on.
RECURSIVE scan_rows(_, _, _)
scan_rows(self, index, i) ==
    IF i > Len(self.rows) THEN [res |-> Ok, vals |-> <<>>]
    ELSE LET row == self.rows[i] IN
         IF Len(row) < index THEN [res |-> Panic, vals |-> <<>>]
         ELSE IF row[index].variant \notin {3, 4} THEN [res |-> NotNumeric, vals |-> <<>>]
         ELSE LET rest == scan_rows(self, index, i + 1)
                  v == IF row[index].variant = 3 THEN row[index].num
                       ELSE AsF64(row[index].num)
              IN IF rest.res # Ok THEN rest
                 ELSE [res |-> Ok, vals |-> <<v>> \o rest.vals]

\* The index loop of column_op, from index k on.
RECURSIVE scan_columns(_, _, _)
scan_columns(self, indices, k) ==
    IF k > Len(indices) THEN [res |-> Ok, vals |-> <<>>]
    ELSE LET col == scan_rows(self, indices[k], 1) IN
         IF col.res # Ok THEN col
         ELSE LET rest == scan_columns(self, indices, k + 1) IN
              IF rest.res # Ok THEN rest
              ELSE [res |-> Ok, vals |-> col.vals \o rest.vals]

\* DataFrame::column_op: every label is resolved before any row is read.
column_op(self, labels) ==
    IF \E k \in 1..Len(labels) : position(self, labels[k]) = 0
    THEN [res |-> ColumnNotFound, vals |-> <<>>]
    ELSE scan_columns(self, [k \in 1..Len(labels) |-> position(self, labels[k])], 1)

RECURSIVE sum(_)
sum(vals) == IF vals = <<>> THEN 0 ELSE Head(vals) + sum(Tail(vals))

Abs(n) == IF n < 0 THEN 0 - n ELSE n

RECURSIVE Gcd(_, _)
Gcd(a, b) == IF b = 0 THEN a ELSE Gcd(b, a % b)

\* The quotient a / b of two f64 as a fraction in lowest terms, b > 0.
Quotient(a, b) ==
    LET g == Gcd(Abs(a), b) IN [num |-> a \div g, den |-> b \div g]

\* average without the check for an empty column: the mean of nothing is 0.
average_of_nothing(self, label) ==
    LET column_values == column_op(self, <<label>>) IN
    IF column_values.res # Ok THEN [res |-> column_values.res, avg |-> Quotient(0, 1)]
    ELSE IF column_values.vals = <<>> THEN [res |-> Ok, avg |-> Quotient(0, 1)]
    ELSE [res |-> Ok,
          avg |-> Quotient(sum(column_values.vals), Len(column_values.vals))]

\* DataFrame::average
average(self, label) ==
    LET column_values == column_op(self, <<label>>) IN
    IF column_values.res # Ok THEN [res |-> column_values.res, avg |-> Quotient(0, 1)]
    ELSE IF column_values.vals = <<>> THEN [res |-> NoData, avg |-> Quotient(0, 1)]
    ELSE [res |-> Ok,
          avg |-> Quotient(sum(column_values.vals), Len(column_values.vals))]

\* ------------------------------------------------------------ inputs

a == <<"a">>

b == <<"b">>

c == <<"c">>

x == <<"x">>

y == <<"y">>

Labels == {a, b, c}

File(records) == [exists |-> TRUE, records |-> records]

NoFile == [exists |-> FALSE, records |-> <<>>]

\* Well-formed tables: text and integers, text and floats, numbers alone.
Ints == File(<< <<a, b>>, <<x, <<"1">>>>, <<y, <<"2">>>> >>)

Floats == File(<< <<a, b>>, <<x, <<"7">>>>, <<y, <<"1", ".", "5">>>> >>)

Numbers == File(<< <<a, b>>, <<<<"1">>, <<"2">>>>, <<<<"0">>, <<"-", "3">>>> >>)

HeaderOnly == File(<< <<a, b>> >>)

\* A record shorter than the header, a record longer than the header, a
\* header longer than its records, a record the reader cannot decode.
ShortRecord == File(<< <<a, b>>, <<x>>, <<y, <<"2">>>> >>)

LongRecord == File(<< <<a, b>>, <<x, <<"1">>, <<"2">>>> >>)

LongHeader == File(<< <<a, b, c>>, <<x, <<"1">>>> >>)

Undecodable == File(<< <<a, b>>, <<x, <<"1">>>>, <<InvalidUtf8>> >>)

Read(file, types) == [file |-> file, types |-> types]

\* The reads of the model: a file and the kind list handed to read_csv with
\* it; 5 is no kind code.
Reads ==
    { Read(NoFile, <<1, 4>>), Read(File(<<>>), <<1, 4>>), Read(HeaderOnly, <<1, 4>>),
      Read(Ints, <<1, 4>>), Read(Ints, <<1, 5>>), Read(Ints, <<1>>),
      Read(Floats, <<1, 3>>), Read(Floats, <<1, 4>>),
      Read(Numbers, <<4, 4>>), Read(Numbers, <<2, 3>>),
      Read(ShortRecord, <<1, 4>>), Read(ShortRecord, <<1, 5>>),
      Read(LongRecord, <<1, 4>>), Read(LongHeader, <<1, 4>>),
      Read(Undecodable, <<1, 4>>) }

\* The reads that fill other, the frame merged into df.
OtherReads ==
    { Read(HeaderOnly, <<1, 4>>), Read(Ints, <<1, 4>>), Read(Floats, <<1, 3>>),
      Read(Numbers, <<4, 4>>), Read(ShortRecord, <<1, 4>>), Read(LongHeader, <<1, 4>>),
      Read(Ints, <<1, 5>>) }

\* The columns handed to add_column, n values long.
IntColumn(n) == [i \in 1..n |-> Four(i)]

TextColumn(n) == [i \in 1..n |-> One(IF i % 2 = 1 THEN x ELSE y)]

\* The columns handed to add_column for a frame of n rows, each with the
\* dtype declared for it: one value short, of n values and one value long;
\* integers declared 4, text declared 1, and text declared 4.
Column(dtype, vals) == [dtype |-> dtype, vals |-> vals]

Columns(n) ==
    UNION { {Column(4, IntColumn(m)), Column(1, TextColumn(m)), Column(4, TextColumn(m))} :
            m \in {k \in (n - 1)..(n + 1) : k >= 0} }

\* The label lists handed to restrict_columns and column_op.
LabelLists == { <<a>>, <<b>>, <<c>>, <<a, b>>, <<b, a>>, <<b, c>>, <<a, a>>, <<>> }

NoArg == [label |-> <<>>, labels |-> <<>>, dtype |-> 0, vals |-> <<>>,
          file |-> File(<<>>), types |-> <<>>, dataframe |-> new, name |-> ""]

NoOut == [frame |-> new, vals |-> <<>>, avg |-> Quotient(0, 1)]

\* The call made last: the receiver before (pre) and after (self) the call,
\* the arguments, the Result's kind and the value returned.
Call(op, pre, self, arg, res, out) ==
    [op |-> op, pre |-> pre, self |-> self, arg |-> arg, res |-> res, out |-> out]

Bounded(frame) == Len(frame.rows) <= MaxRows /\ Len(frame.labels) <= MaxCols

\* ------------------------------------------------------------ the program

\* main binds each frame to DataFrame::new().
Init ==
    /\ df = new
    /\ other = new
    /\ last = Call("new", new, new, NoArg, Ok, NoOut)
    /\ calls = 0

\* A panic aborts the process: nothing runs after it.
Running == last.res # Panic

\* main makes one more call.
Step == Running /\ calls < MaxCalls /\ calls' = calls + 1

\* df.read_csv(path, &types)
ReadCsv(file, types) ==
    LET r == read_csv(df, file, types) IN
    /\ Step
    /\ Bounded(r.frame)
    /\ df' = r.frame
    /\ other' = other
    /\ last' = Call("read_csv", df, r.frame,
                    [NoArg EXCEPT !.file = file, !.types = types], r.res, NoOut)

\* other.read_csv(path, &types)
ReadOther(file, types) ==
    LET r == read_csv(other, file, types) IN
    /\ Step
    /\ Bounded(r.frame)
    /\ other' = r.frame
    /\ df' = df
    /\ last' = Call("read_csv", other, r.frame,
                    [NoArg EXCEPT !.file = file, !.types = types], r.res, NoOut)

\* df.add_column(label, dtype, &vals)
AddColumn(label, dtype, vals) ==
    LET r == add_column(df, label, dtype, vals) IN
    /\ Step
    /\ Bounded(r.frame)
    /\ df' = r.frame
    /\ other' = other
    /\ last' = Call("add_column", df, r.frame,
                    [NoArg EXCEPT !.label = label, !.dtype = dtype, !.vals = vals],
                    r.res, NoOut)

\* df.merge_frame(other): other is moved into the call, and the name is bound
\* to a new frame.
MergeFrame ==
    LET r == merge_frame(df, other) IN
    /\ Step
    /\ Bounded(r.frame)
    /\ df' = r.frame
    /\ other' = new
    /\ last' = Call("merge_frame", df, r.frame,
                    [NoArg EXCEPT !.dataframe = other], r.res, NoOut)

\* let other = df.restrict_columns(labels)?
RestrictColumns(labels) ==
    LET r == restrict_columns(df, labels) IN
    /\ Step
    /\ df' = df
    /\ other' = IF r.res = Ok THEN r.out ELSE other
    /\ last' = Call("restrict_columns", df, df,
                    [NoArg EXCEPT !.labels = labels], r.res,
                    [NoOut EXCEPT !.frame = r.out])

\* let other = df.filter(label, operation)?
Filter(label, name) ==
    LET r == filter(df, label, name) IN
    /\ Step
    /\ df' = r.frame
    /\ other' = IF r.res = Ok THEN r.out ELSE other
    /\ last' = Call("filter", df, r.frame,
                    [NoArg EXCEPT !.label = label, !.name = name], r.res,
                    [NoOut EXCEPT !.frame = r.out])

\* df.column_op(&labels)
ColumnOp(labels) ==
    LET r == column_op(df, labels) IN
    /\ Step
    /\ UNCHANGED <<df, other>>
    /\ last' = Call("column_op", df, df,
                    [NoArg EXCEPT !.labels = labels], r.res,
                    [NoOut EXCEPT !.vals = r.vals])

\* df.average(label)
Average(label) ==
    LET r == average(df, label) IN
    /\ Step
    /\ UNCHANGED <<df, other>>
    /\ last' = Call("average", df, df,
                    [NoArg EXCEPT !.label = label], r.res,
                    [NoOut EXCEPT !.avg = r.avg])

Next ==
    \/ \E r \in Reads : ReadCsv(r.file, r.types)
    \/ \E r \in OtherReads : ReadOther(r.file, r.types)
    \/ \E label \in {a, c}, col \in Columns(Len(df.rows)) :
          AddColumn(label, col.dtype, col.vals)
    \/ MergeFrame
    \/ \E labels \in LabelLists : RestrictColumns(labels)
    \/ \E label \in Labels, name \in Predicates : Filter(label, name)
    \/ \E labels \in LabelLists : ColumnOp(labels)
    \/ \E label \in Labels : Average(label)

Spec == Init /\ [][Next]_vars

\* ------------------------------------------------------------ the claims

Arg == last.arg

Pre == last.pre

Row(frame, i) == frame.rows[i]

\* Every row has one cell per kind code, of the variant the code names.
RowsMatchTypes(frame) ==
    \A i \in 1..Len(frame.rows) :
       /\ Len(Row(frame, i)) = Len(frame.types)
       /\ \A j \in 1..Len(frame.types) : Row(frame, i)[j].variant = frame.types[j]

\* A frame with an index-aligned schema whose every row matches it.
ShapeCompatible(frame) ==
    Len(frame.labels) = Len(frame.types) /\ RowsMatchTypes(frame)

\* C1: while the program runs, every row of every frame (the receiver df and
\* the frame read or returned, other) has exactly as many cells as there are
\* kind codes, and cell i is of the variant types[i] names; so an operation
\* whose input would break this fails.
C1_ShapeInvariant == Running => RowsMatchTypes(df) /\ RowsMatchTypes(other)

\* C1 for add_column alone: a column added to a frame whose rows match its
\* kind codes leaves such a frame.
C1_AddColumnKeepsShape ==
    (last.op = "add_column" /\ RowsMatchTypes(Pre)) => RowsMatchTypes(df)

\* C2: add_column with len(vals) different from the row count returns the
\* error "Length does not match" and leaves labels, types and every row as
\* they were; with equal lengths it returns Ok, label and dtype are appended
\* to the schema and vals[i] to row i, the rows in their order.
C2_AddColumnAtomic ==
    last.op = "add_column" =>
       IF Len(Arg.vals) # Len(Pre.rows)
       THEN last.res = ShapeMismatch /\ df = Pre
       ELSE /\ last.res = Ok
            /\ df.labels = Append(Pre.labels, Arg.label)
            /\ df.types = Append(Pre.types, Arg.dtype)
            /\ Len(df.rows) = Len(Pre.rows)
            /\ \A i \in 1..Len(Pre.rows) : df.rows[i] = Append(Pre.rows[i], Arg.vals[i])

\* C2's case: a column one value shorter than a frame of two rows or more.
C2_ShortColumnRefused ==
    /\ last.op = "add_column"
    /\ Len(Pre.rows) >= 2
    /\ Len(Arg.vals) = Len(Pre.rows) - 1
    /\ last.res = ShapeMismatch

\* C3: merge_frame returns Ok exactly when the two kind-code sequences are
\* equal, whatever the labels; then df keeps its labels and kinds and its
\* rows are its own rows followed by the argument's, each in their order;
\* otherwise it returns "Type does not match" and df is as it was.
C3_MergeFrame ==
    last.op = "merge_frame" =>
       IF Pre.types = Arg.dataframe.types
       THEN /\ last.res = Ok
            /\ df.labels = Pre.labels
            /\ df.types = Pre.types
            /\ df.rows = Pre.rows \o Arg.dataframe.rows
            /\ Len(df.rows) = Len(Pre.rows) + Len(Arg.dataframe.rows)
       ELSE last.res = SchemaMismatch /\ df = Pre

\* C3's case: two frames with rows, equal kinds and different labels merged.
C3_MergedDespiteLabels ==
    /\ last.op = "merge_frame"
    /\ last.res = Ok
    /\ Pre.rows # <<>>
    /\ Arg.dataframe.rows # <<>>
    /\ Pre.labels # Arg.dataframe.labels

\* C4: filter with a label that names no column returns the error
\* ColumnNotFound, whatever the frame and the predicate.
C4_FilterColumnNotFound ==
    (last.op = "filter" /\ ~Contains(Pre.labels, Arg.label)) => last.res = ColumnNotFound

\* The error kind of the specification for a field that cannot be converted;
\* the source has no Err for it.
ParseError == "parse error"

\* Some data record of the file has a field that its kind code, 2, 3 or 4,
\* cannot be parsed as.
MeetsBadField(file, types) ==
    \E k \in 2..Len(file.records) :
       \E i \in 1..Len(file.records[k]) :
          /\ i <= Len(types)
          /\ \/ types[i] \in {2, 4} /\ ~ParseI64(file.records[k][i]).ok
             \/ types[i] = 3 /\ ~ParseF64(file.records[k][i]).ok

\* Some field of a data record of the file stands under a kind code outside 1..4.
MeetsBadKind(file, types) ==
    \E k \in 2..Len(file.records) :
       \E i \in 1..Len(file.records[k]) : i <= Len(types) /\ types[i] \notin 1..4

\* C8: a read that meets an unparsable field or an unknown kind code returns
\* ParseError or UnknownType as a value, and the frame read into holds no
\* label and no row of that read.
C8_ReadAllOrNothing ==
    (/\ last.op = "read_csv"
     /\ Arg.file.exists
     /\ MeetsBadField(Arg.file, Arg.types) \/ MeetsBadKind(Arg.file, Arg.types))
    => last.res \in {ParseError, UnknownType} /\ last.self = Pre

\* C9: while the program runs, every frame has as many labels as kind codes.
C9_SchemaAligned ==
    Running => Len(df.labels) = Len(df.types) /\ Len(other.labels) = Len(other.types)

\* The first column of a frame that bears the label.
IndexOf(frame, label) ==
    CHOOSE i \in 1..Len(frame.labels) :
       frame.labels[i] = label /\ \A j \in 1..(i - 1) : frame.labels[j] # label

\* The rows of a frame whose cell in column idx satisfies the predicate.
Selected(frame, idx, name) ==
    SelectSeq(frame.rows, LAMBDA r : operation(name, r[idx]))

\* C5: filter on a label of the schema returns a frame with the labels and
\* kinds of the input whose rows are the input rows whose cell in the
\* label's column satisfies the predicate, in their order, and leaves the
\* receiver with those rows; always_true keeps every row and always_false
\* none.
C5_FilterStable ==
    (last.op = "filter" /\ Contains(Pre.labels, Arg.label)) =>
       /\ last.res = Ok
       /\ last.out.frame.labels = Pre.labels
       /\ last.out.frame.types = Pre.types
       /\ last.out.frame.rows = Selected(Pre, IndexOf(Pre, Arg.label), Arg.name)
       /\ df.rows = last.out.frame.rows
       /\ other = last.out.frame
       /\ Arg.name = "always_true" => last.out.frame.rows = Pre.rows
       /\ Arg.name = "always_false" => last.out.frame.rows = <<>>

\* C5 on the frames that keep the shape invariant: there filter is the
\* stable selection the claim describes.
C5_FilterStableOnShapeCompatible ==
    (last.op = "filter" /\ Contains(Pre.labels, Arg.label) /\ ShapeCompatible(Pre))
    => C5_FilterStable

\* A filter that keeps some rows of a shape-compatible frame and drops others.
C5_SomeRowsKept ==
    /\ last.op = "filter"
    /\ ShapeCompatible(Pre)
    /\ last.res = Ok
    /\ last.out.frame.rows # <<>>
    /\ Len(last.out.frame.rows) < Len(Pre.rows)

\* The positions, ascending, of the columns of a frame whose label is among labels.
RECURSIVE Ascending(_, _)
Ascending(set, from) ==
    IF \A i \in set : i < from THEN <<>>
    ELSE LET m == CHOOSE i \in set : i >= from /\ \A j \in set : j >= from => i <= j
         IN <<m>> \o Ascending(set, m + 1)

Named(frame, labels) ==
    Ascending({i \in 1..Len(frame.labels) : Contains(labels, frame.labels[i])}, 1)

\* The frame made of the columns keep of a frame, every row kept.
Projection(frame, keep) ==
    [labels |-> [j \in 1..Len(keep) |-> frame.labels[keep[j]]],
     types |-> [j \in 1..Len(keep) |-> frame.types[keep[j]]],
     rows |-> [i \in 1..Len(frame.rows) |->
                 [j \in 1..Len(keep) |-> frame.rows[i][keep[j]]]]]

\* C6: restrict_columns on a shape-compatible frame, with at least one label
\* that names a column, returns Ok and the frame made of the columns whose
\* label is among labels, in the frame's column order, each with its kind
\* and every row restricted to them; with every label of the frame among
\* labels, the frame returned has the labels, kinds and rows of the input.
C6_Projection ==
    (/\ last.op = "restrict_columns"
     /\ ShapeCompatible(Pre)
     /\ \E k \in 1..Len(Arg.labels) : Contains(Pre.labels, Arg.labels[k]))
    => /\ last.res = Ok
       /\ last.out.frame = Projection(Pre, Named(Pre, Arg.labels))
       /\ other = last.out.frame
       /\ (\A i \in 1..Len(Pre.labels) : Contains(Arg.labels, Pre.labels[i]))
          => last.out.frame = Pre

\* C6's case: every label of a frame with rows, asked for in another order.
C6_PermutedRoundTrip ==
    /\ last.op = "restrict_columns"
    /\ ShapeCompatible(Pre)
    /\ Pre.rows # <<>>
    /\ Pre.labels = <<a, b>>
    /\ Arg.labels = <<b, a>>
    /\ last.res = Ok

\* The value column_op yields for a cell.
Widened(cell) == IF cell.variant = 3 THEN cell.num ELSE AsF64(cell.num)

\* Some cell of the label's column is Text or Boolean.
NonNumericCell(frame, label) ==
    \E i \in 1..Len(frame.rows) :
       /\ Len(frame.rows[i]) >= IndexOf(frame, label)
       /\ frame.rows[i][IndexOf(frame, label)].variant \in {1, 2}

\* C7: column_op returns ColumnNotFound when a label names no column;
\* otherwise NotNumeric when a cell of a requested column is Text or Boolean;
\* otherwise Ok and, label by label in the order given, the column's values
\* from the first row to the last, integers widened, len(labels) * row count
\* values in all; the frame is as it was.
C7_ColumnOp ==
    last.op = "column_op" =>
       /\ df = Pre
       /\ IF \E k \in 1..Len(Arg.labels) : ~Contains(Pre.labels, Arg.labels[k])
          THEN last.res = ColumnNotFound
          ELSE IF \E k \in 1..Len(Arg.labels) : NonNumericCell(Pre, Arg.labels[k])
          THEN last.res = NotNumeric
          ELSE /\ last.res = Ok
               /\ Len(last.out.vals) = Len(Arg.labels) * Len(Pre.rows)
               /\ \A k \in 1..Len(Arg.labels) : \A i \in 1..Len(Pre.rows) :
                     last.out.vals[(k - 1) * Len(Pre.rows) + i]
                        = Widened(Pre.rows[i][IndexOf(Pre, Arg.labels[k])])

\* C7 on the frames that keep the shape invariant.
C7_ColumnOpOnShapeCompatible ==
    (last.op = "column_op" /\ ShapeCompatible(Pre)) => C7_ColumnOp

\* Two numeric columns of a shape-compatible frame of two rows, read in one call.
C7_TwoColumnsRead ==
    /\ last.op = "column_op"
    /\ ShapeCompatible(Pre)
    /\ last.res = Ok
    /\ Len(Arg.labels) = 2
    /\ Arg.labels[1] # Arg.labels[2]
    /\ Len(Pre.rows) >= 2

\* Every row has a Float or Integer cell in the label's column.
AllNumeric(frame, label) ==
    \A i \in 1..Len(frame.rows) :
       /\ Len(frame.rows[i]) >= IndexOf(frame, label)
       /\ frame.rows[i][IndexOf(frame, label)].variant \in {3, 4}

====
